---- MODULE Spec2Model ----
(***************************************************************************)
(* Model of backend/first_assistant.py, the Mentorra backend: module       *)
(* start-up (load_dotenv, the two API-key checks, app, clients, routes)    *)
(* and the three request handlers mentor_assist, text_to_speech and        *)
(* speech_to_text, together with the parts of FastAPI/Starlette, pydantic  *)
(* and the json module that decide what the caller observes.               *)
(*                                                                         *)
(* Python values are tagged records [j, v]: j is the JSON/Python type and  *)
(* v the payload (a string, or a sequence of values for a list).           *)
(***************************************************************************)
EXTENDS Integers, Sequences, FiniteSets, TLC

VARIABLES
    environ,    \* os.environ restricted to the two API keys
    dotenv,     \* content of the .env file load_dotenv() reads
    boot,       \* position of the module body (start-up)
    app,        \* the FastAPI application object: exists, clients, routes
    pc,         \* per task: position of the request in framework/handler
    req,        \* per task: endpoint and the request as received
    call,       \* per task: the vendor call the handler issued
    ret,        \* per task: what the vendor returned to the handler
    resp,       \* per task: the HTTP response (status, body, detail)
    stream,     \* per task: the chunks still to come on the vendor stream
    sent,       \* per task: the bytes written to the HTTP client so far
    loop        \* the task running on the event-loop thread, or NoTask

vars == <<environ, dotenv, boot, app, pc, req, call, ret, resp, stream, sent, loop>>

-----------------------------------------------------------------------------
(* Python / JSON values *)

Str(s) == [j |-> "str", v |-> s]
Bool(b) == [j |-> "bool", v |-> IF b THEN "true" ELSE "false"]
Num(n) == [j |-> "num", v |-> n]   \* n is the numeral as text
Arr(xs) == [j |-> "arr", v |-> xs]
Null == [j |-> "null", v |-> "null"]
\* a key that the JSON object / the request does not carry
Missing == [j |-> "missing", v |-> "missing"]

\* Python truthiness of an Optional[str]: None and "" are falsy
Truthy(x) == x.j = "str" /\ x.v # ""

-----------------------------------------------------------------------------
(* Module start-up, lines 17-38 and the route decorators *)

OPENAI_API_KEY == "OPENAI_API_KEY"
ELEVENLABS_API_KEY == "ELEVENLABS_API_KEY"
Keys == {OPENAI_API_KEY, ELEVENLABS_API_KEY}

\* os.getenv(k): the value, or None when the variable is not set
getenv(k) == IF environ[k].j = "missing" THEN Null ELSE environ[k]

\* load_dotenv(): override=False, so a variable already present in the
\* environment (even empty) keeps its value; others are taken from .env
load_dotenv(env, file) ==
    [k \in Keys |-> IF env[k].j # "missing" THEN env[k] ELSE file[k]]

Routes == <<"/api/mentor-assist", "/api/voice/speak", "/api/voice/transcribe">>

NoApp == [exists |-> FALSE, clients |-> {}, routes |-> {}]

EnvValues == {Missing, Str(""), Str("sk-key")}
FileValues == {Missing, Str("sk-file")}

LoadDotenv ==
    /\ boot = "load_dotenv"
    /\ environ' = load_dotenv(environ, dotenv)
    /\ boot' = "check_keys"
    /\ UNCHANGED <<dotenv, app, pc, req, call, ret, resp, stream, sent, loop>>

\* faulty variant: only the first key is verified
VerifyKeysOpenAIOnly ==
    IF ~Truthy(getenv(OPENAI_API_KEY)) THEN "OPENAI_API_KEY is missing in .env" ELSE ""

\* the failing check, or "" when both keys are present and non-empty
VerifyKeys ==
    IF ~Truthy(getenv(OPENAI_API_KEY)) THEN "OPENAI_API_KEY is missing in .env"
    ELSE IF ~Truthy(getenv(ELEVENLABS_API_KEY)) THEN "ELEVENLABS_API_KEY is missing in .env"
    ELSE ""

CheckKeys ==
    /\ boot = "check_keys"
    /\ boot' = IF VerifyKeys # "" THEN "failed" ELSE "create_app"
    /\ UNCHANGED <<environ, dotenv, app, pc, req, call, ret, resp, stream, sent, loop>>

CreateApp ==
    /\ boot = "create_app"
    /\ app' = [app EXCEPT !.exists = TRUE]
    /\ boot' = "init_clients"
    /\ UNCHANGED <<environ, dotenv, pc, req, call, ret, resp, stream, sent, loop>>

InitClients ==
    /\ boot = "init_clients"
    /\ app' = [app EXCEPT !.clients =
                  {[name |-> "openai_client", api_key |-> getenv(OPENAI_API_KEY)],
                   [name |-> "elevenlabs_client", api_key |-> getenv(ELEVENLABS_API_KEY)]}]
    /\ boot' = "routes"
    /\ UNCHANGED <<environ, dotenv, pc, req, call, ret, resp, stream, sent, loop>>

\* the three @app.post decorators run in source order; the server starts
\* serving once the module body has run to its end
RegisterRoute ==
    /\ boot = "routes"
    /\ LET n == Cardinality(app.routes) + 1 IN
         /\ app' = [app EXCEPT !.routes = @ \cup {Routes[n]}]
         /\ boot' = IF n = Len(Routes) THEN "serving" ELSE "routes"
    /\ UNCHANGED <<environ, dotenv, pc, req, call, ret, resp, stream, sent, loop>>

-----------------------------------------------------------------------------
(* JSON text and json.loads, line 120.  A text is a sequence of tokens:    *)
(* punctuation and scalar/array values.                                    *)

Punct(c) == [j |-> "punct", v |-> c]
LBrace == Punct("{")
RBrace == Punct("}")
Colon == Punct(":")
Comma == Punct(",")
IsPunct(t, c) == t.j = "punct" /\ t.v = c

IsValueToken(t) == t.j \in {"str", "bool", "num", "arr", "null"}

\* the text of a JSON object with the given <<key, value>> members
RECURSIVE RenderMembers(_)
RenderMembers(ms) ==
    IF ms = <<>> THEN <<>>
    ELSE <<Str(ms[1][1]), Colon, ms[1][2]>>
         \o (IF Len(ms) = 1 THEN <<>> ELSE <<Comma>> \o RenderMembers(Tail(ms)))

RenderObject(ms) == <<LBrace>> \o RenderMembers(ms) \o <<RBrace>>

JSONDecodeError == "Expecting value: line 1 column 1 (char 0)"
NotTextError == "the JSON object must be str, bytes or bytearray, not NoneType"

\* members of an object body; a repeated key keeps its last value
RECURSIVE ParseMembers(_, _)
ParseMembers(toks, acc) ==
    IF Len(toks) < 3 \/ toks[1].j # "str" \/ ~IsPunct(toks[2], ":") \/ ~IsValueToken(toks[3])
    THEN [ok |-> FALSE, kind |-> "error", d |-> <<>>, msg |-> JSONDecodeError]
    ELSE LET acc2 == (toks[1].v :> toks[3]) @@ acc IN
         IF Len(toks) = 3
         THEN [ok |-> TRUE, kind |-> "dict", d |-> acc2, msg |-> ""]
         ELSE IF ~IsPunct(toks[4], ",")
         THEN [ok |-> FALSE, kind |-> "error", d |-> <<>>, msg |-> JSONDecodeError]
         ELSE ParseMembers(SubSeq(toks, 5, Len(toks)), acc2)

\* json.loads(raw_content): a dict, another JSON value, or an exception
json_loads(raw) ==
    IF raw.j = "null"
    THEN [ok |-> FALSE, kind |-> "error", d |-> <<>>, msg |-> NotTextError]
    ELSE LET toks == raw.v IN
         IF Len(toks) = 1 /\ IsValueToken(toks[1])
         THEN [ok |-> TRUE, kind |-> "other", d |-> <<>>, msg |-> ""]
         ELSE IF Len(toks) < 2 \/ ~IsPunct(toks[1], "{") \/ ~IsPunct(toks[Len(toks)], "}")
         THEN [ok |-> FALSE, kind |-> "error", d |-> <<>>, msg |-> JSONDecodeError]
         ELSE IF Len(toks) = 2
         THEN [ok |-> TRUE, kind |-> "dict", d |-> <<>>, msg |-> ""]
         ELSE ParseMembers(SubSeq(toks, 2, Len(toks) - 1), <<>>)

\* data[k], with Missing for a key the dict does not have
Get(d, k) == IF k \in DOMAIN d THEN d[k] ELSE Missing

-----------------------------------------------------------------------------
(* MentorResponse, lines 53-59, and its construction from data, line 121 *)

MentorFields == {"mentor_track", "switched_track", "reply",
                 "clarifying_question", "next_actions", "memory_update"}

\* pydantic's default (lax) mode: a str field takes only a str; a bool field
\* also takes 0/1 and the boolean words; Optional[str] takes None and
\* defaults to None; List[str] takes a list of str
BoolTrueWords == {"1", "on", "t", "true", "y", "yes"}
BoolFalseWords == {"0", "off", "f", "false", "n", "no"}

Bad == [j |-> "invalid", v |-> "invalid"]

ValidateStr(x) == IF x.j = "str" THEN x ELSE Bad

ValidateBool(x) ==
    IF x.j = "bool" THEN x
    ELSE IF x.j \in {"str", "num"} /\ x.v \in BoolTrueWords THEN Bool(TRUE)
    ELSE IF x.j \in {"str", "num"} /\ x.v \in BoolFalseWords THEN Bool(FALSE)
    ELSE Bad

\* faulty variant: the optional field is never taken from the data
ValidateOptionalStrUnset(x) == IF x.j \in {"missing", "null", "str"} THEN Null ELSE Bad

ValidateOptionalStr(x) ==
    IF x.j \in {"missing", "null"} THEN Null
    ELSE IF x.j = "str" THEN x ELSE Bad

ValidateListStr(x) ==
    IF x.j = "arr" /\ \A i \in 1..Len(x.v) : x.v[i].j = "str" THEN x ELSE Bad

ValidateField(f, x) ==
    CASE f = "switched_track" -> ValidateBool(x)
      [] f = "clarifying_question" -> ValidateOptionalStr(x)
      [] f = "next_actions" -> ValidateListStr(x)
      [] OTHER -> ValidateStr(x)

ValidationError == "1 validation error for MentorResponse"
NotMappingError == "MentorResponse() argument after ** must be a mapping"

\* the MentorResponse built from the dict data (keyword expansion); keys
\* outside the six fields are ignored
MentorResponse(data) ==
    LET m == [f \in MentorFields |-> ValidateField(f, Get(data, f))] IN
    IF \E f \in MentorFields : m[f].j = "invalid"
    THEN [ok |-> FALSE, model |-> <<>>, msg |-> ValidationError]
    ELSE [ok |-> TRUE, model |-> m, msg |-> ""]

-----------------------------------------------------------------------------
(* Request models, lines 42-51 and 61-65, as FastAPI builds them from the  *)
(* request body before it calls the handler                                *)

Text(toks) == [j |-> "text", v |-> toks]
Obj(r) == [j |-> "obj", v |-> r]

\* an Optional[str] field with a default: a key that is absent takes the
\* default, an explicit null is None
OptionalStr(x, default) ==
    IF x.j = "missing" THEN default
    ELSE IF x.j \in {"null", "str"} THEN x ELSE Bad

\* FounderProfile: industry = None, stage = None, key_challenges = []
FounderProfile(x) ==
    IF x.j \in {"missing", "null"} THEN Null
    ELSE IF x.j # "obj" THEN Bad
    ELSE Obj([industry |-> OptionalStr(x.v.industry, Null),
              stage |-> OptionalStr(x.v.stage, Null),
              key_challenges |-> IF x.v.key_challenges.j = "missing" THEN Arr(<<>>)
                                 ELSE x.v.key_challenges])

\* UserRequest: user_message is required
UserRequest(body) ==
    IF \/ body.user_message.j # "str"
       \/ FounderProfile(body.founder_profile).j = "invalid"
       \/ OptionalStr(body.active_mentor_track, Null).j = "invalid"
       \/ OptionalStr(body.memory_context, Null).j = "invalid"
    THEN [ok |-> FALSE, model |-> <<>>]
    ELSE [ok |-> TRUE,
          model |-> [user_message |-> body.user_message,
                     founder_profile |-> FounderProfile(body.founder_profile),
                     active_mentor_track |-> OptionalStr(body.active_mentor_track, Null),
                     memory_context |-> OptionalStr(body.memory_context, Str(""))]]

DefaultVoiceId == Str("JBFqnCBsd6RMkjVDRZzb")
DefaultModelId == Str("eleven_monolingual_v1")
DefaultOutputFormat == Str("mp3_44100_128")

\* TTSRequest: text is required
TTSRequest(body) ==
    IF \/ body.text.j # "str"
       \/ \E x \in {body.voice_id, body.model_id, body.output_format} :
            OptionalStr(x, Null).j = "invalid"
    THEN [ok |-> FALSE, model |-> <<>>]
    ELSE [ok |-> TRUE,
          model |-> [text |-> body.text,
                     voice_id |-> OptionalStr(body.voice_id, DefaultVoiceId),
                     model_id |-> OptionalStr(body.model_id, DefaultModelId),
                     output_format |-> OptionalStr(body.output_format, DefaultOutputFormat)]]

-----------------------------------------------------------------------------
(* The context string of mentor_assist, lines 101-107 *)

\* str(x) as an f-string renders it
PyStr(x) == IF x.j = "null" THEN "None" ELSE x.v

\* json text of a str or None
DumpScalar(x) == IF x.j = "null" THEN "null" ELSE "\"" \o x.v \o "\""

RECURSIVE DumpItems(_)
DumpItems(xs) ==
    IF xs = <<>> THEN ""
    ELSE DumpScalar(xs[1]) \o (IF Len(xs) = 1 THEN "" ELSE "," \o DumpItems(Tail(xs)))

\* FounderProfile.model_dump_json()
model_dump_json(p) ==
    "{\"industry\":" \o DumpScalar(p.v.industry)
    \o ",\"stage\":" \o DumpScalar(p.v.stage)
    \o ",\"key_challenges\":[" \o DumpItems(p.v.key_challenges.v) \o "]}"

\* faulty variant: the track is tested against None instead of for truth
ActiveTrackTextIsNone(request) ==
    IF request.active_mentor_track.j = "null"
    THEN "None" ELSE request.active_mentor_track.v

ActiveTrackText(request) ==
    IF Truthy(request.active_mentor_track)
    THEN request.active_mentor_track.v ELSE "None"

\* a pydantic model instance is always truthy; only None is replaced
FounderProfileText(request) ==
    IF request.founder_profile.j = "obj"
    THEN model_dump_json(request.founder_profile) ELSE "Unknown"

\* the f-string: its fixed text and the four interpolated values
user_input_context(request) ==
    [template |-> "INPUT DATA: - User Message: \"{}\" - Active Mentor Track: {} - Founder Profile: {} - Memory Context: {}",
     user_message |-> request.user_message.v,
     active_mentor_track |-> ActiveTrackText(request),
     founder_profile |-> FounderProfileText(request),
     memory_context |-> PyStr(request.memory_context)]

SYSTEM_PROMPT_TEMPLATE == "You are the Mentorra Routing Agent. ..."

\* the arguments of openai_client.chat.completions.create, lines 109-117
CompletionCall(request) ==
    [api |-> "chat.completions.create",
     model |-> "gpt-4-turbo",
     response_format |-> "json_object",
     system |-> SYSTEM_PROMPT_TEMPLATE,
     user |-> user_input_context(request),
     temperature |-> "0.7"]

-----------------------------------------------------------------------------
(* Requests.  A request is handled by one task; the event loop runs one    *)
(* task at a time and a task keeps it until it awaits or returns.          *)

Tasks == {"t1", "t2"}
NoTask == "none"

NoReq == [ep |-> "none"]
NoCall == [api |-> "none"]
NoRet == [kind |-> "none"]
NoResp == [status |-> 0]
NoStream == [chunks |-> <<>>, error |-> ""]

\* faulty variant: the exception text is not passed on
HTTPExceptionGeneric(detail) == [status |-> 500, detail |-> "Internal Server Error"]

\* HTTPException(status_code=500, detail=...) as FastAPI renders it
HTTPException(detail) == [status |-> 500, detail |-> detail]
\* a request the framework rejects before the handler is called
RequestValidationError == [status |-> 422, detail |-> "Field required"]

Serving(route) == boot = "serving" /\ route \in app.routes

\* raw_content .. return of mentor_assist, lines 119-125, for a completion
\* that was returned: choices[0].message.content, json.loads, MentorResponse
MentorResult(completion) ==
    IF completion.choices = <<>>
    THEN HTTPException("list index out of range")
    ELSE LET data == json_loads(completion.choices[1].content) IN
         IF ~data.ok THEN HTTPException(data.msg)
         ELSE IF data.kind # "dict" THEN HTTPException(NotMappingError)
         ELSE LET m == MentorResponse(data.d) IN
              IF ~m.ok THEN HTTPException(m.msg)
              ELSE [status |-> 200, body |-> m.model]

\* POST /api/mentor-assist up to the completion call, lines 98-117: the call
\* is synchronous, so the task keeps the event loop while it is in flight
MentorAssist(t, body) ==
    /\ Serving("/api/mentor-assist")
    /\ pc[t] = "idle" /\ loop = NoTask
    /\ req' = [req EXCEPT ![t] = [ep |-> "mentor", body |-> body]]
    /\ LET request == UserRequest(body) IN
         IF ~request.ok
         THEN /\ resp' = [resp EXCEPT ![t] = RequestValidationError]
              /\ pc' = [pc EXCEPT ![t] = "done"]
              /\ UNCHANGED <<call, loop>>
         ELSE /\ call' = [call EXCEPT ![t] = CompletionCall(request.model)]
              /\ pc' = [pc EXCEPT ![t] = "in_completion"]
              /\ loop' = t
              /\ UNCHANGED resp
    /\ UNCHANGED <<environ, dotenv, boot, app, ret, stream, sent>>

\* the completion call returns or raises; the handler runs to its end
MentorAssistReturn(t, outcome) ==
    /\ pc[t] = "in_completion" /\ loop = t
    /\ ret' = [ret EXCEPT ![t] = outcome]
    /\ resp' = [resp EXCEPT ![t] =
                   IF outcome.kind = "raise" THEN HTTPException(outcome.msg)
                   ELSE MentorResult(outcome)]
    /\ pc' = [pc EXCEPT ![t] = "done"]
    /\ loop' = NoTask
    /\ UNCHANGED <<environ, dotenv, boot, app, req, call, stream, sent>>

-----------------------------------------------------------------------------
(* POST /api/voice/speak, lines 129-152 *)

\* faulty variant: voice and model identifiers change places
SpeakCallSwapped(request) ==
    [api |-> "text_to_speech.convert",
     voice_id |-> request.model_id,
     model_id |-> request.voice_id,
     text |-> request.text,
     output_format |-> request.output_format]

SpeakCall(request) ==
    [api |-> "text_to_speech.convert",
     voice_id |-> request.voice_id,
     model_id |-> request.model_id,
     text |-> request.text,
     output_format |-> request.output_format]

\* the handler: convert() either raises, which the except clause turns into
\* a 500, or hands back the chunk iterator, which the handler wraps in
\* iterfile() and returns; the framework then starts the 200 response and
\* pulls the chunks after the handler has returned
TextToSpeech(t, body, outcome) ==
    /\ Serving("/api/voice/speak")
    /\ pc[t] = "idle" /\ loop = NoTask
    /\ req' = [req EXCEPT ![t] = [ep |-> "speak", body |-> body]]
    /\ LET request == TTSRequest(body) IN
         IF ~request.ok
         THEN /\ resp' = [resp EXCEPT ![t] = RequestValidationError]
              /\ pc' = [pc EXCEPT ![t] = "done"]
              /\ UNCHANGED <<call, ret, stream>>
         ELSE /\ call' = [call EXCEPT ![t] = SpeakCall(request.model)]
              /\ ret' = [ret EXCEPT ![t] = outcome]
              /\ IF outcome.kind = "raise"
                 THEN /\ resp' = [resp EXCEPT ![t] =
                             HTTPException("Text-to-speech failed: " \o outcome.msg)]
                      /\ pc' = [pc EXCEPT ![t] = "done"]
                      /\ UNCHANGED stream
                 ELSE /\ resp' = [resp EXCEPT ![t] =
                             [status |-> 200, media_type |-> "audio/mpeg"]]
                      /\ stream' = [stream EXCEPT ![t] =
                             [chunks |-> outcome.chunks, error |-> outcome.error]]
                      /\ pc' = [pc EXCEPT ![t] = "streaming"]
    /\ UNCHANGED <<environ, dotenv, boot, app, sent, loop>>

\* faulty variant: a chunk replaces what was yielded before
iterfileKeepLast(out, chunk) == IF chunk # <<>> THEN chunk ELSE out

\* the body of iterfile's loop, lines 144-146: a non-empty chunk is yielded
iterfile(out, chunk) == IF chunk # <<>> THEN out \o chunk ELSE out

\* one pull on iterfile() by the streaming response: the next chunk, the end
\* of the vendor stream, or the vendor stream's exception, which is raised in
\* the framework after the handler's try block was left
StreamNext(t) ==
    /\ pc[t] = "streaming" /\ loop = NoTask
    /\ IF stream[t].chunks # <<>>
       THEN /\ sent' = [sent EXCEPT ![t] = iterfile(@, Head(stream[t].chunks))]
            /\ stream' = [stream EXCEPT ![t].chunks = Tail(@)]
            /\ UNCHANGED pc
       ELSE /\ pc' = [pc EXCEPT ![t] = IF stream[t].error # "" THEN "aborted" ELSE "done"]
            /\ UNCHANGED <<sent, stream>>
    /\ UNCHANGED <<environ, dotenv, boot, app, req, call, ret, resp, loop>>

-----------------------------------------------------------------------------
(* POST /api/voice/transcribe, lines 154-174 *)

\* UploadFile.read(): the whole content of the upload
read(file) == file.content

\* faulty variant: the filename is passed on without a fallback
AudioFileNameNoFallback(file) == IF file.filename.j = "str" THEN file.filename.v ELSE "None"

\* audio_file.name, line 163
AudioFileName(file) == IF Truthy(file.filename) THEN file.filename.v ELSE "audio.mp3"

TranscriptionCall(file, audio_bytes) ==
    [api |-> "audio.transcriptions.create",
     model |-> "whisper-1",
     name |-> AudioFileName(file),
     bytes |-> audio_bytes]

\* the handler up to `await file.read()`, where the task gives up the loop
SpeechToText(t, upload) ==
    /\ Serving("/api/voice/transcribe")
    /\ pc[t] = "idle" /\ loop = NoTask
    /\ req' = [req EXCEPT ![t] = [ep |-> "transcribe", body |-> upload]]
    /\ IF upload.j # "file"
       THEN /\ resp' = [resp EXCEPT ![t] = RequestValidationError]
            /\ pc' = [pc EXCEPT ![t] = "done"]
       ELSE /\ pc' = [pc EXCEPT ![t] = "await_read"]
            /\ UNCHANGED resp
    /\ UNCHANGED <<environ, dotenv, boot, app, call, ret, stream, sent, loop>>

\* the read completes (or raises) and the handler goes on to the synchronous
\* transcription call, lines 160-168
SpeechToTextRead(t, outcome) ==
    /\ pc[t] = "await_read" /\ loop = NoTask
    /\ ret' = [ret EXCEPT ![t] = outcome]
    /\ IF outcome.kind = "raise"
       THEN /\ resp' = [resp EXCEPT ![t] =
                   HTTPException("Transcription failed: " \o outcome.msg)]
            /\ pc' = [pc EXCEPT ![t] = "done"]
            /\ UNCHANGED <<call, loop>>
       ELSE /\ call' = [call EXCEPT ![t] =
                   TranscriptionCall(req[t].body.v, read(req[t].body.v))]
            /\ pc' = [pc EXCEPT ![t] = "in_transcription"]
            /\ loop' = t
            /\ UNCHANGED resp
    /\ UNCHANGED <<environ, dotenv, boot, app, req, stream, sent>>

\* the transcription call returns or raises, lines 170-174
SpeechToTextReturn(t, outcome) ==
    /\ pc[t] = "in_transcription" /\ loop = t
    /\ ret' = [ret EXCEPT ![t] = outcome]
    /\ resp' = [resp EXCEPT ![t] =
                   IF outcome.kind = "raise"
                   THEN HTTPException("Transcription failed: " \o outcome.msg)
                   ELSE [status |-> 200, body |-> [text |-> outcome.text]]]
    /\ pc' = [pc EXCEPT ![t] = "done"]
    /\ loop' = NoTask
    /\ UNCHANGED <<environ, dotenv, boot, app, req, call, stream, sent>>

\* the exchange is over: nothing of the request outlives it
Discard(t) ==
    /\ pc[t] \in {"done", "aborted"}
    /\ pc' = [pc EXCEPT ![t] = "idle"]
    /\ req' = [req EXCEPT ![t] = NoReq]
    /\ call' = [call EXCEPT ![t] = NoCall]
    /\ ret' = [ret EXCEPT ![t] = NoRet]
    /\ resp' = [resp EXCEPT ![t] = NoResp]
    /\ stream' = [stream EXCEPT ![t] = NoStream]
    /\ sent' = [sent EXCEPT ![t] = <<>>]
    /\ UNCHANGED <<environ, dotenv, boot, app, loop>>

-----------------------------------------------------------------------------
(* Inputs: request bodies and vendor behaviours *)

MaxChunks == 2

VendorErrors == {"Connection error.", ""}
Raises == {[kind |-> "raise", msg |-> m] : m \in VendorErrors}

ProfileBodies ==
    {Missing, Null,
     Obj([industry |-> Missing, stage |-> Missing, key_challenges |-> Missing]),
     Obj([industry |-> Str("ai"), stage |-> Null,
          key_challenges |-> Arr(<<Str("hiring"), Str("churn")>>)])}

MentorBodies ==
    [user_message : {Missing, Str("How do I price?")},
     founder_profile : ProfileBodies,
     active_mentor_track : {Missing, Null, Str(""), Str("Sales")},
     memory_context : {Missing, Str("b2b saas")}]

\* a schema-conformant reply of the model, as <<key, value>> members
BaseDoc ==
    << <<"mentor_track", Str("Sales")>>,
       <<"switched_track", Bool(TRUE)>>,
       <<"reply", Str("Talk to ten buyers.")>>,
       <<"clarifying_question", Str("Who signs?")>>,
       <<"next_actions", Arr(<<Str("call"), Str("price")>>)>>,
       <<"memory_update", Str("pricing")>> >>

AltValues ==
    {Str("yes"), Str("no"), Str(""), Str("maybe"), Bool(FALSE), Null, Num("1"), Num("7"),
     Arr(<<>>), Arr(<<Str("x")>>), Arr(<<Num("1")>>)}

Without(ms, i) == SubSeq(ms, 1, i - 1) \o SubSeq(ms, i + 1, Len(ms))

Docs ==
    {BaseDoc}
    \cup {[BaseDoc EXCEPT ![i][2] = x] : i \in DOMAIN BaseDoc, x \in AltValues}
    \cup {Without(BaseDoc, i) : i \in DOMAIN BaseDoc}
    \cup {BaseDoc \o << <<"confidence", Num("1")>> >>,
          BaseDoc \o << <<"reply", Str("Second reply.")>> >>,
          <<>>}

\* texts that are not JSON: empty, cut short, a stray comma, a bare word
BrokenTexts ==
    {<<>>,
     Without(RenderObject(BaseDoc), Len(RenderObject(BaseDoc))),
     <<LBrace, Comma, RBrace>>,
     <<LBrace, Str("reply"), Colon, Str("hi"), Comma, RBrace>>,
     <<LBrace, Str("reply"), Str("hi"), RBrace>>,
     <<Punct("Sure")>>}

Contents ==
    {Null} \cup {Text(RenderObject(d)) : d \in Docs}
           \cup {Text(x) : x \in BrokenTexts}
           \cup {Text(<<Arr(<<Str("call")>>)>>), Text(<<Str("Sales")>>)}

Completions ==
    Raises \cup {[kind |-> "ok", choices |-> <<>>]}
           \cup {[kind |-> "ok", choices |-> <<[content |-> c]>>] : c \in Contents}

TTSBodies ==
    [text : {Missing, Str("Hello founder")},
     voice_id : {Missing, Null, Str("voice-2")},
     model_id : {Missing, Str("eleven_turbo_v2")},
     output_format : {Missing, Str("pcm_16000")}]

Chunks == {<<>>, <<1>>, <<2, 3>>}

RECURSIVE SeqsUpTo(_, _)
SeqsUpTo(S, n) ==
    IF n = 0 THEN {<<>>}
    ELSE SeqsUpTo(S, n - 1)
         \cup {Append(q, x) : q \in {r \in SeqsUpTo(S, n - 1) : Len(r) = n - 1}, x \in S}

\* what convert() gives: an exception, or a stream of chunks that ends
\* normally (error = "") or by raising
Conversions ==
    Raises \cup [kind : {"stream"}, chunks : SeqsUpTo(Chunks, MaxChunks),
                 error : {"", "stream broke"}]

Uploads ==
    {Missing}
    \cup {[j |-> "file", v |-> [filename |-> n, content |-> c]] :
            n \in {Null, Str(""), Str("memo.wav")}, c \in {<<>>, <<7>>, <<7, 8, 9>>}}

Reads == {[kind |-> "ok"], [kind |-> "raise", msg |-> "I/O operation on closed file."]}

Transcriptions ==
    Raises \cup {[kind |-> "ok", text |-> x] : x \in {"", "how do I price"}}

-----------------------------------------------------------------------------
(* Specifications *)

Init ==
    /\ environ \in [Keys -> EnvValues]
    /\ dotenv \in [Keys -> FileValues]
    /\ boot = "load_dotenv"
    /\ app = NoApp
    /\ pc = [t \in Tasks |-> "idle"]
    /\ req = [t \in Tasks |-> NoReq]
    /\ call = [t \in Tasks |-> NoCall]
    /\ ret = [t \in Tasks |-> NoRet]
    /\ resp = [t \in Tasks |-> NoResp]
    /\ stream = [t \in Tasks |-> NoStream]
    /\ sent = [t \in Tasks |-> <<>>]
    /\ loop = NoTask

Startup == LoadDotenv \/ CheckKeys \/ CreateApp \/ InitClients \/ RegisterRoute

\* one request at a time, over all inputs
Next ==
    \/ Startup
    \/ \E body \in MentorBodies : MentorAssist("t1", body)
    \/ \E outcome \in Completions : MentorAssistReturn("t1", outcome)
    \/ \E body \in TTSBodies, outcome \in Conversions : TextToSpeech("t1", body, outcome)
    \/ StreamNext("t1")
    \/ \E upload \in Uploads : SpeechToText("t1", upload)
    \/ \E outcome \in Reads : SpeechToTextRead("t1", outcome)
    \/ \E outcome \in Transcriptions : SpeechToTextReturn("t1", outcome)
    \/ Discard("t1")

Spec == Init /\ [][Next]_vars

\* two requests in flight, over a few inputs each
ConcMentorBodies == {b \in MentorBodies : b.founder_profile = Missing /\ b.memory_context = Missing}
ConcCompletions == {c \in Completions : c.kind = "raise" \/ c.choices = <<[content |-> Text(RenderObject(BaseDoc))]>>}
ConcTTSBodies == {b \in TTSBodies : b.voice_id = Missing /\ b.model_id = Missing}
ConcConversions == {c \in Conversions : c.kind = "stream" /\ c.chunks \in {<< >>, << <<1>>, <<2, 3>> >>}}
ConcUploads == {u \in Uploads : u = Missing \/ u.v.content = <<7>>}

NextConc ==
    \/ Startup
    \/ \E t \in Tasks :
        \/ \E body \in ConcMentorBodies : MentorAssist(t, body)
        \/ \E outcome \in ConcCompletions : MentorAssistReturn(t, outcome)
        \/ \E body \in ConcTTSBodies, outcome \in ConcConversions : TextToSpeech(t, body, outcome)
        \/ StreamNext(t)
        \/ \E upload \in ConcUploads : SpeechToText(t, upload)
        \/ \E outcome \in Reads : SpeechToTextRead(t, outcome)
        \/ \E outcome \in Transcriptions : SpeechToTextReturn(t, outcome)
        \/ Discard(t)

SpecConc == Init /\ [][NextConc]_vars

-----------------------------------------------------------------------------
(* Properties of the mentor relay *)

\* the value a JSON object text gives a key: its last member with that key
RECURSIVE FieldOf(_, _)
FieldOf(ms, k) ==
    IF ms = <<>> THEN Missing
    ELSE IF ms[Len(ms)][1] = k THEN ms[Len(ms)][2]
    ELSE FieldOf(SubSeq(ms, 1, Len(ms) - 1), k)

IsStr(x) == x.j = "str"
IsStrList(x) == x.j = "arr" /\ \A i \in 1..Len(x.v) : x.v[i].j = "str"

\* the object has the declared JSON type in each field of the schema
Conformant(ms) ==
    /\ IsStr(FieldOf(ms, "mentor_track"))
    /\ FieldOf(ms, "switched_track").j = "bool"
    /\ IsStr(FieldOf(ms, "reply"))
    /\ FieldOf(ms, "clarifying_question").j \in {"str", "null", "missing"}
    /\ IsStrList(FieldOf(ms, "next_actions"))
    /\ IsStr(FieldOf(ms, "memory_update"))

Same(x, y) == x.j = y.j /\ x.v = y.v

\* task t got a completion whose text is the JSON object with members ms
Completed(t, ms) ==
    /\ req[t].ep = "mentor" /\ pc[t] = "done" /\ ret[t].kind = "ok"
    /\ ret[t].choices # <<>>
    /\ ret[t].choices[1].content.j = "text"
    /\ ret[t].choices[1].content.v = RenderObject(ms)

\* task t got a completion with a text that is no schema-conformant JSON
CompletedMalformed(t) ==
    /\ req[t].ep = "mentor" /\ pc[t] = "done" /\ ret[t].kind = "ok"
    /\ ret[t].choices # <<>>
    /\ ret[t].choices[1].content.j = "text"
    /\ ~\E ms \in Docs : Conformant(ms) /\ ret[t].choices[1].content.v = RenderObject(ms)

\* C1 as stated: for a completion text that is well-formed JSON matching
\* the MentorResponse schema, the endpoint answers 200 and each of the six
\* fields of the response is exactly the field of the JSON, none altered,
\* added or dropped
C1_PassThroughExact ==
    \A t \in Tasks : \A ms \in Docs :
        Completed(t, ms) /\ Conformant(ms) =>
            /\ resp[t].status = 200
            /\ \A f \in MentorFields : Same(resp[t].body[f], FieldOf(ms, f))

\* C1 amended: for a completion text that is well-formed JSON matching the
\* MentorResponse schema, the endpoint answers 200 and each field the JSON
\* carries is returned exactly; a clarifying_question the JSON does not
\* carry is returned as null
C1_PassThrough ==
    \A t \in Tasks : \A ms \in Docs :
        Completed(t, ms) /\ Conformant(ms) =>
            /\ resp[t].status = 200
            /\ DOMAIN resp[t].body = MentorFields
            /\ \A f \in MentorFields :
                 Same(resp[t].body[f],
                      IF FieldOf(ms, f).j = "missing" THEN Null ELSE FieldOf(ms, f))

C1_Witness ==
    \E t \in Tasks :
        /\ Completed(t, Without(BaseDoc, 4))
        /\ resp[t].status = 200
        /\ resp[t].body["clarifying_question"] = Null
        /\ Same(resp[t].body["next_actions"], Arr(<<Str("call"), Str("price")>>))

\* C2: the endpoint answers 200 only for a completion text that is JSON
\* satisfying the MentorResponse schema; for a text that is not JSON or does
\* not satisfy the schema it answers 500 with a non-empty message, never 200
C2_RejectsMalformed ==
    \A t \in Tasks :
        CompletedMalformed(t) => resp[t].status = 500 /\ resp[t].detail # ""

-----------------------------------------------------------------------------
(* Properties of the failure paths *)

\* the exception the vendor stream of task t raised while being iterated
StreamFailed(t) == req[t].ep = "speak" /\ pc[t] = "aborted"

\* a vendor call or the upload read of task t raised inside the handler
Raised(t) == pc[t] = "done" /\ ret[t].kind = "raise"

\* the request of task t lacks its upload or a required body field
InputFailure(t) ==
    /\ pc[t] = "done"
    /\ \/ req[t].ep = "mentor" /\ req[t].body.user_message.j = "missing"
       \/ req[t].ep = "speak" /\ req[t].body.text.j = "missing"
       \/ req[t].ep = "transcribe" /\ req[t].body.j = "missing"

\* the completion text of task t is not JSON at all
NotJson(t) ==
    /\ req[t].ep = "mentor" /\ pc[t] = "done" /\ ret[t].kind = "ok"
    /\ ret[t].choices # <<>>
    /\ ret[t].choices[1].content.j = "text"
    /\ ret[t].choices[1].content.v \in BrokenTexts

DetailPrefix(ep) ==
    CASE ep = "speak" -> "Text-to-speech failed: "
      [] ep = "transcribe" -> "Transcription failed: "
      [] OTHER -> ""

\* C3: an exception of the synthesis call, at stream set-up or while the
\* chunks are iterated (also after some chunks were produced), is answered
\* with a 500 whose detail carries the exception's text
C3_StreamErrorsCaught ==
    \A t \in Tasks :
        /\ req[t].ep = "speak" /\ Raised(t) =>
              /\ resp[t].status = 500
              /\ resp[t].detail = "Text-to-speech failed: " \o ret[t].msg
        /\ StreamFailed(t) =>
              /\ resp[t].status = 500
              /\ resp[t].detail = "Text-to-speech failed: " \o ret[t].error

\* C4 as stated: every failure of the three endpoints (vendor failure,
\* malformed response, input failure) ends in a 500 response
C4_EveryFailureIs500 ==
    \A t \in Tasks :
        InputFailure(t) \/ Raised(t) \/ NotJson(t) \/ StreamFailed(t) =>
            resp[t].status = 500

\* C4 amended: a failure raised inside a handler's try block (a vendor call
\* or the upload read raising, a completion text that is not JSON or lacks a
\* required field) ends in a 500 whose detail carries the exception text; a request without its upload
\* or a required body field is rejected with 422 before the handler runs; a
\* failure while the synthesis stream is iterated comes after the 200
\* response was started
C4_FailureStatus ==
    \A t \in Tasks :
        /\ InputFailure(t) => resp[t].status = 422 /\ call[t] = NoCall
        /\ Raised(t) =>
              /\ resp[t].status = 500
              /\ resp[t].detail = DetailPrefix(req[t].ep) \o ret[t].msg
        /\ NotJson(t) => resp[t].status = 500 /\ resp[t].detail = JSONDecodeError
        /\ \A i \in DOMAIN BaseDoc \ {4} :
             Completed(t, Without(BaseDoc, i)) =>
                 resp[t].status = 500 /\ resp[t].detail = ValidationError
        /\ StreamFailed(t) => resp[t].status = 200

C4_Witness ==
    \E t \in Tasks :
        /\ req[t].ep = "transcribe" /\ InputFailure(t)
        /\ resp[t].status = 422

-----------------------------------------------------------------------------
(* Properties of the voice relays *)

RECURSIVE Flatten(_)
Flatten(cs) == IF cs = <<>> THEN <<>> ELSE Head(cs) \o Flatten(Tail(cs))

\* C5: the bytes written to the client are the concatenation of the vendor
\* stream's chunks in arrival order, nothing lost, repeated or reordered
\* (empty chunks add nothing), and the body ends when the vendor stream ends
C5_StreamConcat ==
    \A t \in Tasks :
        req[t].ep = "speak" /\ ret[t].kind = "stream" =>
            /\ sent[t] \o Flatten(stream[t].chunks) = Flatten(ret[t].chunks)
            /\ pc[t] = "done" => stream[t].chunks = <<>> /\ sent[t] = Flatten(ret[t].chunks)

C5_Witness ==
    \E t \in Tasks :
        /\ req[t].ep = "speak" /\ pc[t] = "done"
        /\ ret[t].kind = "stream"
        /\ ret[t].chunks = << <<>>, <<2, 3>> >>
        /\ sent[t] = <<2, 3>>

\* C8: voice_id, model_id and output_format go to the vendor as the fixed
\* defaults when the request omits them and unchanged when it supplies them,
\* together with the request's text
C8_Defaults ==
    \A t \in Tasks :
        req[t].ep = "speak" /\ call[t] # NoCall =>
            /\ call[t].api = "text_to_speech.convert"
            /\ call[t].text = req[t].body.text
            /\ call[t].voice_id =
                 IF req[t].body.voice_id.j = "missing"
                 THEN Str("JBFqnCBsd6RMkjVDRZzb") ELSE req[t].body.voice_id
            /\ call[t].model_id =
                 IF req[t].body.model_id.j = "missing"
                 THEN Str("eleven_monolingual_v1") ELSE req[t].body.model_id
            /\ call[t].output_format =
                 IF req[t].body.output_format.j = "missing"
                 THEN Str("mp3_44100_128") ELSE req[t].body.output_format

C8_Witness ==
    \E t \in Tasks :
        /\ req[t].ep = "speak" /\ call[t] # NoCall
        /\ req[t].body.voice_id.j = "missing"
        /\ req[t].body.model_id = Str("eleven_turbo_v2")
        /\ call[t].voice_id = Str("JBFqnCBsd6RMkjVDRZzb")
        /\ call[t].model_id = Str("eleven_turbo_v2")

\* C9: an upload without a filename goes to the transcription vendor as
\* audio.mp3 and one with a filename under that filename, the bytes sent are
\* the whole upload, and the response is {text: transcript} unchanged
C9_Transcribe ==
    \A t \in Tasks :
        req[t].ep = "transcribe" =>
            /\ call[t] # NoCall =>
                 /\ call[t].name =
                      IF req[t].body.v.filename \in {Null, Str("")}
                      THEN "audio.mp3" ELSE req[t].body.v.filename.v
                 /\ call[t].bytes = req[t].body.v.content
            /\ pc[t] = "done" /\ ret[t].kind = "ok" /\ call[t] # NoCall =>
                 /\ resp[t].status = 200
                 /\ resp[t].body = [text |-> ret[t].text]

C9_Witness ==
    \E t \in Tasks :
        /\ req[t].ep = "transcribe" /\ pc[t] = "done"
        /\ req[t].body.j = "file" /\ call[t] # NoCall /\ ret[t].kind = "ok"
        /\ req[t].body.v.filename = Null
        /\ req[t].body.v.content = <<7, 8, 9>>
        /\ call[t].name = "audio.mp3"
        /\ resp[t].status = 200
        /\ resp[t].body.text = "how do I price"

-----------------------------------------------------------------------------
(* Properties of start-up, of the context string and of scheduling *)

\* the secret is in neither the process environment nor the .env file
Unset(k) == environ[k].j = "missing" /\ dotenv[k].j = "missing"

\* C6: with either secret unset the module body stops at the key checks:
\* no application, client or route is ever created and no request is handled
C6_RefusesToStart ==
    (\E k \in Keys : Unset(k)) =>
        /\ boot \in {"load_dotenv", "check_keys", "failed"}
        /\ app = NoApp
        /\ \A t \in Tasks : pc[t] = "idle" /\ resp[t] = NoResp

C6_Witness ==
    /\ boot = "failed"
    /\ ~Unset(OPENAI_API_KEY)
    /\ Unset(ELEVENLABS_API_KEY)
    /\ app = NoApp

ProfileJson(p) ==
    IF p.v.industry.j = "missing"
    THEN "{\"industry\":null,\"stage\":null,\"key_challenges\":[]}"
    ELSE "{\"industry\":\"ai\",\"stage\":null,\"key_challenges\":[\"hiring\",\"churn\"]}"

ContextCarriesMessage(t) ==
    /\ call[t].user.user_message = req[t].body.user_message.v
    /\ call[t].user.memory_context =
         IF req[t].body.memory_context.j = "missing" THEN ""
         ELSE req[t].body.memory_context.v

ContextCarriesProfile(t) ==
    /\ req[t].body.founder_profile.j = "missing" =>
         call[t].user.founder_profile = "Unknown"
    /\ req[t].body.founder_profile.j = "obj" =>
         call[t].user.founder_profile = ProfileJson(req[t].body.founder_profile)

\* C7 as stated: in the context sent upstream an omitted founder_profile
\* reads "Unknown" and an omitted active_mentor_track reads "None"; a
\* supplied profile appears as its JSON rendering and a supplied track as
\* its text, beside the user message and the memory context
C7_ContextMarkersExact ==
    \A t \in Tasks :
        req[t].ep = "mentor" /\ call[t] # NoCall =>
            /\ ContextCarriesMessage(t)
            /\ ContextCarriesProfile(t)
            /\ req[t].body.active_mentor_track.j = "missing" =>
                 call[t].user.active_mentor_track = "None"
            /\ req[t].body.active_mentor_track.j = "str" =>
                 call[t].user.active_mentor_track = req[t].body.active_mentor_track.v

\* C7 amended: as C7, except that an active_mentor_track supplied as the
\* empty string (or as null) reads "None" like an omitted one; only a
\* non-empty track appears as its text
C7_ContextMarkers ==
    \A t \in Tasks :
        req[t].ep = "mentor" /\ call[t] # NoCall =>
            /\ ContextCarriesMessage(t)
            /\ ContextCarriesProfile(t)
            /\ req[t].body.founder_profile.j = "null" =>
                 call[t].user.founder_profile = "Unknown"
            /\ call[t].user.active_mentor_track =
                 IF req[t].body.active_mentor_track \in {Missing, Null, Str("")}
                 THEN "None" ELSE req[t].body.active_mentor_track.v

C7_Witness ==
    \E t \in Tasks :
        /\ req[t].ep = "mentor" /\ call[t] # NoCall
        /\ req[t].body.active_mentor_track = Str("")
        /\ req[t].body.founder_profile.j = "obj"
        /\ call[t].user.active_mentor_track = "None"
        /\ call[t].user.founder_profile =
             "{\"industry\":\"ai\",\"stage\":null,\"key_challenges\":[\"hiring\",\"churn\"]}"

\* C10: a handler that is waiting for a vendor call (completion,
\* transcription) has given up the event loop, so that another request's
\* handler can run meanwhile
C10_VendorCallsSuspend ==
    \A t \in Tasks :
        pc[t] \in {"in_completion", "in_transcription"} => loop = NoTask

====
